---- MODULE Spec2Model ----
(***************************************************************************)
(* NPCM750 ECE (hextile encoder) character-device drivers.                 *)
(*                                                                         *)
(* Two variants of the driver live in the tree and are modelled side by    *)
(* side, selected by the variable `variant`:                               *)
(*   "media" : drivers/media/platform/nuvoton/npcm750_ece.c                *)
(*   "video" : drivers/video/compression/npcm750_ece.c                     *)
(*                                                                         *)
(* A u32 is the pair <<hi, lo>> of its two 16-bit halves, so that every    *)
(* 32-bit value of the C code is representable and its arithmetic wraps    *)
(* modulo 2^32 exactly as in C.                                            *)
(***************************************************************************)
EXTENDS Integers, Sequences, FiniteSets, TLC

(***************************************************************************)
(* Bounds of the model.                                                    *)
(***************************************************************************)
NumCallers == 2

(***************************************************************************)
(* Program constants.                                                      *)
(***************************************************************************)
ECE_TILE_W == 16
ECE_TILE_H == 16
RECT_DIMEN_HLTR_OFFSET == 27
RECT_DIMEN_HR_OFFSET == 16
RECT_DIMEN_WLTR_OFFSET == 11
RECT_DIMEN_WR_OFFSET == 0
DEFAULT_WIDTH == 640
DEFAULT_HEIGHT == 640
DEFAULT_LP == 2048
ECE_MIN_LP == 512
ECE_MAX_LP == 4096
HEX_CTRL_ENC_GAP_OFFSET == 8
HEX_CTRL_ENC_MIN_GAP_SIZE == 4
RETRY_COUNT == 30

(***************************************************************************)
(* 32-bit words.                                                           *)
(***************************************************************************)
Limb == 65536

U32(n) == << (n \div Limb) % Limb, n % Limb >>

Zero32 == <<0, 0>>
One32 == <<0, 1>>
Max32 == <<65535, 65535>>

RECURSIVE And16(_, _, _)
And16(a, b, n) ==
    IF n = 0 THEN 0
    ELSE (IF a % 2 = 1 /\ b % 2 = 1 THEN 1 ELSE 0)
         + 2 * And16(a \div 2, b \div 2, n - 1)

RECURSIVE Or16(_, _, _)
Or16(a, b, n) ==
    IF n = 0 THEN 0
    ELSE (IF a % 2 = 1 \/ b % 2 = 1 THEN 1 ELSE 0)
         + 2 * Or16(a \div 2, b \div 2, n - 1)

\* The operators below bind their operands by value (a bound variable of a
\* set constructor holds a value, an operator argument an expression), so
\* that the cost of an expression is linear in its size however it is
\* evaluated.
U32And(a, b) ==
    CHOOSE r \in { << And16(x[1], y[1], 16), And16(x[2], y[2], 16) >> :
                     x \in { a }, y \in { b } } : TRUE

U32Or(a, b) ==
    CHOOSE r \in { << Or16(x[1], y[1], 16), Or16(x[2], y[2], 16) >> :
                     x \in { a }, y \in { b } } : TRUE

U32Not(a) == CHOOSE r \in { << 65535 - x[1], 65535 - x[2] >> : x \in { a } } : TRUE

U32Add(a, b) ==
    CHOOSE r \in { << (x[1] + y[1] + ((x[2] + y[2]) \div Limb)) % Limb,
                       (x[2] + y[2]) % Limb >> : x \in { a }, y \in { b } } : TRUE

U32Sub(a, b) == U32Add(a, U32Add(U32Not(b), One32))

U32Shr1(a) ==
    CHOOSE r \in { << x[1] \div 2, (x[2] \div 2) + (x[1] % 2) * 32768 >> :
                     x \in { a } } : TRUE

RECURSIVE U32Shl(_, _)
U32Shl(a, k) ==
    IF k = 0 THEN a
    ELSE CHOOSE r \in { U32Shl(d, k - 1) : d \in { U32Add(a, a) } } : TRUE

RECURSIVE U32Shr(_, _)
U32Shr(a, k) ==
    IF k = 0 THEN a
    ELSE CHOOSE r \in { U32Shr(d, k - 1) : d \in { U32Shr1(a) } } : TRUE

RECURSIVE U32Mul(_, _)
U32Mul(a, b) ==
    IF b = Zero32 THEN Zero32
    ELSE CHOOSE r \in UNION
           { { U32Add(IF y[2] % 2 = 1 THEN v ELSE Zero32, p) :
                 p \in { U32Mul(U32Add(v, v), U32Shr1(y)) } } :
               v \in { a }, y \in { b } } : TRUE

\* a / n and a % n for a power of two n <= 2^16
U32DivP2(a, n) ==
    CHOOSE r \in { << x[1] \div n, (x[2] \div n) + (x[1] % n) * (Limb \div n) >> :
                     x \in { a } } : TRUE
U32ModP2(a, n) == << 0, a[2] % n >>

(***************************************************************************)
(* Register bits.                                                          *)
(***************************************************************************)
DDA_CTRL_ECEEN == U32(1)
DDA_STS_CDREADY == U32(256)
HEX_CTRL_ENCDIS == U32(1)
HEX_CTRL_ENC_GAP == U32(7936)

\* npcm750_ece_update_bits: the value written back for register value t
update_bits(t, mask, bits) == U32Or(U32And(t, U32Not(mask)), U32And(bits, mask))

(***************************************************************************)
(* ece_enc_rect: the rectangle offset and the tile layout.                 *)
(***************************************************************************)
rect_offset_m(r_off_x, r_off_y, lin_pitch) ==
    U32Add(U32Mul(r_off_y, U32(lin_pitch)), r_off_x)

rect_offset(r_off_x, r_off_y, lin_pitch) ==
    U32Add(U32Mul(r_off_y, U32(lin_pitch)), U32Mul(r_off_x, U32(2)))

w_tile_of(r_w) ==
    IF U32ModP2(r_w, ECE_TILE_W) # Zero32
    THEN U32Add(U32DivP2(r_w, ECE_TILE_W), One32)
    ELSE U32DivP2(r_w, ECE_TILE_W)

w_size_of(r_w) ==
    IF U32ModP2(r_w, ECE_TILE_W) # Zero32
    THEN U32ModP2(r_w, ECE_TILE_W)
    ELSE U32(ECE_TILE_W)

\* the condition of the second if: r_h % ECE_TILE_H || !h_tile
h_forced_m(r_h) == U32ModP2(r_h, ECE_TILE_H) # Zero32

h_forced(r_h) ==
    \/ U32ModP2(r_h, ECE_TILE_H) # Zero32
    \/ U32DivP2(r_h, ECE_TILE_H) = Zero32

h_tile_of(r_h) ==
    IF h_forced(r_h)
    THEN U32Add(U32DivP2(r_h, ECE_TILE_H), One32)
    ELSE U32DivP2(r_h, ECE_TILE_H)

h_size_of(r_h) ==
    IF h_forced(r_h)
    THEN U32ModP2(r_h, ECE_TILE_H)
    ELSE U32(ECE_TILE_H)

\* temp, the value written to RECT_DIMEN
rect_dimen(w_size, h_size, w_tile, h_tile) ==
    U32Or(U32Or(U32Or(
        U32Shl(U32Sub(w_size, One32), RECT_DIMEN_WLTR_OFFSET),
        U32Shl(U32Sub(h_size, One32), RECT_DIMEN_HLTR_OFFSET)),
        U32Shl(U32Sub(w_tile, One32), RECT_DIMEN_WR_OFFSET)),
        U32Shl(U32Sub(h_tile, One32), RECT_DIMEN_HR_OFFSET))

(***************************************************************************)
(* ece_set_lp: the resolution code of a pitch, -1 for the default branch.  *)
(***************************************************************************)
\* a switch that takes every multiple of 512 up to 4096
lp_code_m(pitch) ==
    IF pitch > 0 /\ pitch <= 4096 /\ pitch % 512 = 0
    THEN (pitch \div 512) - 1
    ELSE -1

lp_code(pitch) ==
    CASE pitch = 512  -> 0
      [] pitch = 1024 -> 1
      [] pitch = 2048 -> 2
      [] pitch = 2560 -> 3
      [] pitch = 4096 -> 4
      [] OTHER -> -1

\* the guard of ECE_IOCSETLP: !(data.lp % ECE_MIN_LP) && data.lp <= ECE_MAX_LP
\* (data.lp is an int; C's % yields 0 exactly when the mathematical one does)
lp_accepted(lp) ==
    /\ (IF lp >= 0 THEN lp % ECE_MIN_LP ELSE (-lp) % ECE_MIN_LP) = 0
    /\ lp <= ECE_MAX_LP

\* enc_gap without the default for a zero field
enc_gap_of_m(hex_ctrl) ==
    U32Shr(U32And(hex_ctrl, HEX_CTRL_ENC_GAP), HEX_CTRL_ENC_GAP_OFFSET)

\* enc_gap as computed at the end of ECE_IOCGETED
enc_gap_of(hex_ctrl) ==
    LET g == U32Shr(U32And(hex_ctrl, HEX_CTRL_ENC_GAP), HEX_CTRL_ENC_GAP_OFFSET)
    IN  IF g = Zero32 THEN U32(HEX_CTRL_ENC_MIN_GAP_SIZE) ELSE g

(***************************************************************************)
(* State.                                                                  *)
(***************************************************************************)
VARIABLES
    variant,         \* "media" or "video": which driver is built in
    registered_ece,  \* the global pointer: "NULL" or "ece"
    drvdata,         \* platform_get_drvdata(pdev): "NULL" or "ece"
    remove_ece,      \* the pointer remove() worked on
    ece,             \* the fields of struct npcm750_ece
    mlock,           \* ece->mlock: 0 when free, else the holder
    regs,            \* the register window
    hw,              \* the encoder block: "idle", "busy", "sizing", "stalled"
    hw_at,           \* the output offset of the rectangle it is encoding
    ed_buffer,       \* size words of the mapped output region, by offset
    pc,              \* position of each caller
    filp,            \* filp->private_data of each caller's file
    loc,             \* locals of the handler each caller is in
    ncalls           \* the ioctl calls made, where a run counts them

vars == << variant, registered_ece, drvdata, remove_ece, ece, mlock,
           regs, hw, hw_at, ed_buffer, pc, filp, loc, ncalls >>

Callers == 1 .. NumCallers
\* the driver core's thread, which runs probe() and remove()
PLAT == 0
Threads == { PLAT } \cup Callers

\* the encoded-output region provisioned by the device tree
COMP_START == U32(4096)
\* what the encoder produces for one rectangle, and where it may put it
ENC_SIZE == 8
MaxOffset == 0
Offsets == { o \in 0 .. MaxOffset + ENC_SIZE * NumCallers : o % ENC_SIZE = 0 }
\* comp_len, the length in bytes of that region: its last size word ends it
COMP_LEN == MaxOffset + ENC_SIZE * NumCallers + 4

NoArgs == [ framebuf |-> Zero32, gap_len |-> Zero32, len |-> Zero32,
            x |-> Zero32, y |-> Zero32, w |-> Zero32, h |-> Zero32,
            lp |-> 0, uptr |-> "rw" ]

\* what a successful copy_to_user leaves in the caller's memory
NoOut == [ copied |-> FALSE, len |-> Zero32, gap_len |-> Zero32,
           offset |-> Zero32 ]

NoLoc == [ cmd |-> "none", data |-> NoArgs,
           offset |-> Zero32, ed_size |-> Zero32, count |-> 0, err |-> 0,
           rect_offset |-> Zero32, lp_used |-> 0,
           w_tile |-> Zero32, h_tile |-> Zero32,
           w_size |-> Zero32, h_size |-> Zero32, temp |-> Zero32,
           out |-> NoOut ]

EFAULT == 14
ENODEV == 19

\* reset values of HEX_CTRL: its gap field is a property of the silicon and
\* is never written by the driver
HexCtrlResets == { Zero32, U32(768), U32(16128) }

InitWith(resets) ==
    /\ variant \in { "media", "video" }
    /\ ncalls = 0
    /\ registered_ece = "NULL"
    /\ drvdata = "NULL"
    /\ remove_ece = "none"
    /\ ece = [ lin_pitch |-> 0, enc_gap |-> Zero32, width |-> Zero32,
               height |-> Zero32, initialised |-> 0,
               base |-> "NULL", dev |-> "NULL" ]
    /\ mlock = 0
    /\ \E hc \in resets :
         regs = [ DDA_CTRL |-> Zero32, DDA_STS |-> Zero32, FBR_BA |-> Zero32,
                  ED_BA |-> Zero32, RECT_XY |-> Zero32, RECT_DIMEN |-> Zero32,
                  RESOL |-> Zero32, HEX_CTRL |-> hc,
                  HEX_RECT_OFFSET |-> Zero32 ]
    /\ hw = "idle"
    /\ hw_at = Zero32
    /\ ed_buffer = [ o \in Offsets |-> 0 ]
    /\ pc = [ t \in Threads |-> IF t = PLAT THEN "unbound" ELSE "closed" ]
    /\ filp = [ t \in Callers |-> "NULL" ]
    /\ loc = [ t \in Threads |-> NoLoc ]

Init == InitWith({ U32(768) })

(***************************************************************************)
(* Register accesses and what the encoder block makes of them.             *)
(***************************************************************************)
Bit(v, mask) == U32And(v, mask) # Zero32

\* a write of val to DDA_CTRL: clearing ECEEN flushes the engine
WriteCtrl(val) ==
    /\ regs' = [regs EXCEPT !.DDA_CTRL = val]
    /\ hw' = IF Bit(val, DDA_CTRL_ECEEN) THEN hw ELSE "idle"
    /\ hw_at' = IF Bit(val, DDA_CTRL_ECEEN) THEN hw_at ELSE Zero32

\* a write of val to HEX_CTRL: setting ENCDIS stops the encoder
WriteHexCtrl(val) ==
    /\ regs' = [regs EXCEPT !.HEX_CTRL = val]
    /\ hw' = IF Bit(val, HEX_CTRL_ENCDIS) THEN "idle" ELSE hw
    /\ hw_at' = IF Bit(val, HEX_CTRL_ENCDIS) THEN Zero32 ELSE hw_at

\* a write of val to DDA_STS: CDREADY is write-1-to-clear
WriteSts(val) ==
    /\ regs' = [regs EXCEPT !.DDA_STS =
                   U32And(regs.DDA_STS,
                          U32Not(U32And(val, DDA_STS_CDREADY)))]
    /\ UNCHANGED << hw, hw_at >>

\* a write of val to RECT_DIMEN starts the encoder if it is enabled; the
\* output of the rectangle goes to the running output offset
WriteDimen(val) ==
    LET starts == /\ Bit(regs.DDA_CTRL, DDA_CTRL_ECEEN)
                  /\ ~Bit(regs.HEX_CTRL, HEX_CTRL_ENCDIS)
    IN  /\ regs' = [regs EXCEPT !.RECT_DIMEN = val]
        /\ hw' = IF starts THEN "busy" ELSE hw
        /\ hw_at' = IF starts THEN regs.HEX_RECT_OFFSET ELSE hw_at

\* a write to a register without side effect on the engine
WriteReg(reg, val) ==
    /\ regs' = [regs EXCEPT ![reg] = val]
    /\ UNCHANGED << hw, hw_at >>

(***************************************************************************)
(* The encoder block.  Started by the RECT_DIMEN write, it puts the        *)
(* output at the running output offset, advances the offset by what it     *)
(* wrote and raises CDREADY; the size word at the head of the output may   *)
(* land after CDREADY.  Or it never answers.                               *)
(***************************************************************************)
HwOffset == regs.HEX_RECT_OFFSET[2]

HwReady ==
    /\ hw = "busy"
    /\ hw' = "sizing"
    /\ regs' = [regs EXCEPT
                  !.DDA_STS = U32Or(regs.DDA_STS, DDA_STS_CDREADY),
                  !.HEX_RECT_OFFSET =
                      U32Add(regs.HEX_RECT_OFFSET, U32(ENC_SIZE))]
    /\ UNCHANGED << variant, registered_ece, drvdata, remove_ece, ece, mlock,
                    hw_at, ed_buffer, pc, filp, loc, ncalls >>

HwSize ==
    /\ hw = "sizing"
    /\ hw' = "idle"
    /\ hw_at' = Zero32
    /\ ed_buffer' = IF hw_at[1] = 0 /\ hw_at[2] \in DOMAIN ed_buffer
                    THEN [ed_buffer EXCEPT ![hw_at[2]] = ENC_SIZE]
                    ELSE ed_buffer
    /\ UNCHANGED << variant, registered_ece, drvdata, remove_ece, ece, mlock,
                    regs, pc, filp, loc, ncalls >>

HwStall ==
    /\ hw = "busy"
    /\ hw' = "stalled"
    /\ UNCHANGED << variant, registered_ece, drvdata, remove_ece, ece, mlock,
                    regs, hw_at, ed_buffer, pc, filp, loc, ncalls >>

(***************************************************************************)
(* probe() and remove().                                                   *)
(***************************************************************************)
Goto(t, to) == pc' = [pc EXCEPT ![t] = to]

\* ece_clear_drs / npcm750_ece_clear_drs: set CDREADY in what was read, write
ClearDrs == WriteSts(U32Or(regs.DDA_STS, DDA_STS_CDREADY))

\* the calls of probe and of npcm750_ece_device_create that can fail
ProbeFailures ==
    { "kzalloc", "request_mem_region", "ioremap", "of_iomap",
      "alloc_chrdev_region", "kmalloc", "cdev_add", "class_create",
      "device_create" }

\* the value probe returns when the call `fail` fails: 0 where the failure
\* is not seen.  of_iomap returns NULL when it fails, which IS_ERR does not
\* take for an error; after a failed kmalloc or device_create,
\* npcm750_ece_device_create returns ret as the last successful call left
\* it, 0.
probe_ret(fail) ==
    CASE fail = "kzalloc" -> -12
      [] fail = "request_mem_region" -> -16
      [] fail = "ioremap" -> -5
      [] fail \in { "alloc_chrdev_region", "cdev_add", "class_create" } -> -1
      [] OTHER -> 0

\* npcm750_ece_probe up to the return of npcm750_ece_device_create, with
\* the call `fail` failing ("none": every call succeeds).  When it goes on,
\* ece->base is NULL after a failed of_iomap, and there is no device node
\* after a failed kmalloc or device_create.
Probe(fail) ==
    /\ pc[PLAT] = "unbound"
    /\ IF probe_ret(fail) # 0
       THEN /\ Goto(PLAT, "probe_failed")
            /\ UNCHANGED ece
       ELSE /\ ece' = [ece EXCEPT
                         !.base = IF fail = "of_iomap"
                                  THEN "NULL" ELSE "mapped",
                         !.dev = IF fail \in { "kmalloc", "device_create" }
                                 THEN "NULL" ELSE "hextile"]
            /\ Goto(PLAT, IF variant = "media" THEN "m_publish"
                                               ELSE "v_rst_clr")
    /\ UNCHANGED << variant, registered_ece, drvdata, remove_ece, mlock, regs,
                    hw, hw_at, ed_buffer, filp, loc, ncalls >>

\* the end of the media probe: registered_ece = ece; return 0
MProbeFinish ==
    /\ pc[PLAT] = "m_publish"
    /\ registered_ece' = "ece"
    /\ Goto(PLAT, "bound")
    /\ UNCHANGED << variant, drvdata, remove_ece, ece, mlock, regs, hw, hw_at,
                    ed_buffer, filp, loc, ncalls >>

\* video ece_reset, called from ece_initialise in probe
VReset(t) ==
    /\ pc[t] \in { "v_rst_clr", "v_rst_set", "v_rst_dis", "v_rst_en",
                   "v_rst_off", "v_rst_gap" }
    /\ CASE pc[t] = "v_rst_clr" /\ ece.base = "NULL" ->
              \* readl(NULL + DDA_CTRL): the kernel oopses in probe
              /\ Goto(t, "probe_oops")
              /\ UNCHANGED << ece, loc, regs, hw, hw_at >>
         [] pc[t] = "v_rst_clr" /\ ece.base # "NULL" ->
              LET temp == U32And(regs.DDA_CTRL, U32Not(DDA_CTRL_ECEEN))
              IN  /\ WriteCtrl(temp)
                  /\ loc' = [loc EXCEPT ![t].temp = temp]
                  /\ Goto(t, "v_rst_set")
                  /\ UNCHANGED ece
         [] pc[t] = "v_rst_set" ->
              LET temp == U32Or(loc[t].temp, DDA_CTRL_ECEEN)
              IN  /\ WriteCtrl(temp)
                  /\ loc' = [loc EXCEPT ![t].temp = temp]
                  /\ Goto(t, "v_rst_dis")
                  /\ UNCHANGED ece
         [] pc[t] = "v_rst_dis" ->
              /\ WriteHexCtrl(U32Or(regs.HEX_CTRL, HEX_CTRL_ENCDIS))
              /\ Goto(t, "v_rst_en")
              /\ UNCHANGED << ece, loc >>
         [] pc[t] = "v_rst_en" ->
              /\ WriteHexCtrl(U32And(regs.HEX_CTRL, U32Not(HEX_CTRL_ENCDIS)))
              /\ Goto(t, "v_rst_off")
              /\ UNCHANGED << ece, loc >>
         [] pc[t] = "v_rst_off" ->
              /\ WriteReg("HEX_RECT_OFFSET", Zero32)
              /\ Goto(t, "v_rst_gap")
              /\ UNCHANGED << ece, loc >>
         [] pc[t] = "v_rst_gap" ->
              /\ ece' = [ece EXCEPT !.enc_gap = enc_gap_of(regs.HEX_CTRL)]
              /\ loc' = [loc EXCEPT ![t] = NoLoc]
              /\ Goto(t, "v_init_drs")
              /\ UNCHANGED << regs, hw, hw_at >>
    /\ UNCHANGED << variant, registered_ece, drvdata, remove_ece, mlock,
                    ed_buffer, filp, ncalls >>

\* the rest of video probe: ece_clear_drs, the defaults, ece_set_enc_dba,
\* and the publication of the instance
VProbeFinish ==
    /\ pc[PLAT] \in { "v_init_drs", "v_init_dba", "v_publish" }
    /\ CASE pc[PLAT] = "v_init_drs" ->
              /\ ClearDrs
              /\ ece' = [ece EXCEPT !.initialised = 1]
              /\ Goto(PLAT, "v_init_dba")
              /\ UNCHANGED registered_ece
         [] pc[PLAT] = "v_init_dba" ->
              /\ ece' = [ece EXCEPT !.width = U32(DEFAULT_WIDTH),
                                    !.height = U32(DEFAULT_HEIGHT),
                                    !.lin_pitch = DEFAULT_LP]
              /\ WriteReg("ED_BA", COMP_START)
              /\ Goto(PLAT, "v_publish")
              /\ UNCHANGED registered_ece
         [] pc[PLAT] = "v_publish" ->
              /\ registered_ece' = "ece"
              /\ Goto(PLAT, "bound")
              /\ UNCHANGED << ece, regs, hw, hw_at >>
    /\ UNCHANGED << variant, drvdata, remove_ece, mlock, ed_buffer, filp,
                    loc, ncalls >>

\* npcm750_ece_remove: ece = platform_get_drvdata(pdev), which probe never
\* set.  Dereferencing it is undefined: the thread dies in an oops, or the
\* read goes through and the function runs on (kfree(NULL) frees nothing).
Remove(oops) ==
    /\ pc[PLAT] = "bound"
    /\ remove_ece' = drvdata
    /\ IF drvdata = "NULL" /\ oops
       THEN /\ Goto(PLAT, "oops")
            /\ UNCHANGED registered_ece
       ELSE /\ Goto(PLAT, "removed")
            /\ registered_ece' = "NULL"
    /\ UNCHANGED << variant, drvdata, ece, mlock, regs, hw, hw_at,
                    ed_buffer, filp,
                    loc, ncalls >>

(***************************************************************************)
(* open() and release().                                                   *)
(***************************************************************************)
\* the device node exists from device_create on
NodeExists == ece.dev # "NULL" /\ pc[PLAT] # "probe_failed"

\* open() without the test of registered_ece
Open_m(t) ==
    /\ pc[t] = "closed"
    /\ NodeExists
    /\ filp' = [filp EXCEPT ![t] = registered_ece]
    /\ Goto(t, IF variant = "media" THEN "m_rst_1" ELSE "opened")
    /\ UNCHANGED << variant, registered_ece, drvdata, remove_ece, ece, mlock,
                    regs, hw, hw_at, ed_buffer, loc, ncalls >>

\* npcm750_ece_open / drv_open; at "enodev" the call is returning -ENODEV
Open(t) ==
    /\ pc[t] = "closed"
    /\ NodeExists
    /\ IF registered_ece = "NULL"
       THEN /\ Goto(t, "enodev")
            /\ UNCHANGED filp
       ELSE /\ filp' = [filp EXCEPT ![t] = registered_ece]
            /\ Goto(t, IF variant = "media" THEN "m_rst_1" ELSE "opened")
    /\ UNCHANGED << variant, registered_ece, drvdata, remove_ece, ece, mlock,
                    regs, hw, hw_at, ed_buffer, loc, ncalls >>

\* the failed open() is back in user space
OpenFailed(t) ==
    /\ pc[t] = "enodev"
    /\ Goto(t, "closed")
    /\ UNCHANGED << variant, registered_ece, drvdata, remove_ece, ece, mlock,
                    regs, hw, hw_at, ed_buffer, filp, loc, ncalls >>

\* npcm750_ece_initialise, called from the media open() without the lock:
\* npcm750_ece_reset, npcm750_ece_clear_drs, npcm750_ece_set_enc_dba and the
\* default line pitch.  Each update_bits is one step: every bit it rewrites
\* besides its own is constant, so its read and its write do not race.
MInitialise(t) ==
    /\ pc[t] \in { "m_rst_1", "m_rst_2", "m_rst_3", "m_rst_4", "m_rst_5",
                   "m_init_drs", "m_init_dba", "m_init_lp" }
    /\ CASE pc[t] = "m_rst_1" /\ ece.base = "NULL" ->
              \* readl(NULL + DDA_CTRL): the kernel oopses in open()
              /\ Goto(t, "oops")
              /\ UNCHANGED << ece, regs, hw, hw_at >>
         [] pc[t] = "m_rst_1" /\ ece.base # "NULL" ->
              /\ WriteCtrl(update_bits(regs.DDA_CTRL, DDA_CTRL_ECEEN,
                                       U32Not(DDA_CTRL_ECEEN)))
              /\ Goto(t, "m_rst_2")
              /\ UNCHANGED ece
         [] pc[t] = "m_rst_2" ->
              /\ WriteHexCtrl(update_bits(regs.HEX_CTRL, HEX_CTRL_ENCDIS,
                                          HEX_CTRL_ENCDIS))
              /\ Goto(t, "m_rst_3")
              /\ UNCHANGED ece
         [] pc[t] = "m_rst_3" ->
              /\ WriteCtrl(update_bits(regs.DDA_CTRL, DDA_CTRL_ECEEN,
                                       DDA_CTRL_ECEEN))
              /\ Goto(t, "m_rst_4")
              /\ UNCHANGED ece
         [] pc[t] = "m_rst_4" ->
              /\ WriteHexCtrl(update_bits(regs.HEX_CTRL, HEX_CTRL_ENCDIS,
                                          U32Not(HEX_CTRL_ENCDIS)))
              /\ Goto(t, "m_rst_5")
              /\ UNCHANGED ece
         [] pc[t] = "m_rst_5" ->
              /\ WriteReg("HEX_RECT_OFFSET", Zero32)
              /\ Goto(t, "m_init_drs")
              /\ UNCHANGED ece
         [] pc[t] = "m_init_drs" ->
              /\ WriteSts(update_bits(regs.DDA_STS, DDA_STS_CDREADY,
                                      DDA_STS_CDREADY))
              /\ Goto(t, "m_init_dba")
              /\ UNCHANGED ece
         [] pc[t] = "m_init_dba" ->
              /\ WriteReg("ED_BA", COMP_START)
              /\ Goto(t, "m_init_lp")
              /\ UNCHANGED ece
         [] pc[t] = "m_init_lp" ->
              /\ ece' = [ece EXCEPT !.lin_pitch = DEFAULT_LP]
              /\ Goto(t, "opened")
              /\ UNCHANGED << regs, hw, hw_at >>
    /\ UNCHANGED << variant, registered_ece, drvdata, remove_ece, mlock,
                    ed_buffer, filp, loc, ncalls >>

\* npcm750_ece_release / drv_release
Release(t) ==
    /\ pc[t] = "opened"
    /\ IF variant = "media"
       THEN /\ Goto(t, "m_deinit_1")
            /\ UNCHANGED filp
       ELSE /\ Goto(t, "closed")
            /\ filp' = [filp EXCEPT ![t] = "NULL"]
    /\ UNCHANGED << variant, registered_ece, drvdata, remove_ece, ece, mlock,
                    regs, hw, hw_at, ed_buffer, loc, ncalls >>

\* npcm750_ece_deinit, called from the media release() without the lock
MDeinit(t) ==
    /\ pc[t] \in { "m_deinit_1", "m_deinit_2", "m_deinit_3", "m_deinit_4" }
    /\ CASE pc[t] = "m_deinit_1" ->
              /\ WriteCtrl(update_bits(regs.DDA_CTRL, DDA_CTRL_ECEEN,
                                       U32Not(DDA_CTRL_ECEEN)))
              /\ Goto(t, "m_deinit_2")
              /\ UNCHANGED filp
         [] pc[t] = "m_deinit_2" ->
              /\ WriteHexCtrl(update_bits(regs.HEX_CTRL, HEX_CTRL_ENCDIS,
                                          HEX_CTRL_ENCDIS))
              /\ Goto(t, "m_deinit_3")
              /\ UNCHANGED filp
         [] pc[t] = "m_deinit_3" ->
              /\ WriteReg("HEX_RECT_OFFSET", Zero32)
              /\ Goto(t, "m_deinit_4")
              /\ UNCHANGED filp
         [] pc[t] = "m_deinit_4" ->
              /\ WriteSts(update_bits(regs.DDA_STS, DDA_STS_CDREADY,
                                      DDA_STS_CDREADY))
              /\ Goto(t, "closed")
              /\ filp' = [filp EXCEPT ![t] = "NULL"]
    /\ UNCHANGED << variant, registered_ece, drvdata, remove_ece, ece, mlock,
                    ed_buffer, loc, ncalls >>

(***************************************************************************)
(* npcm750_ece_ioctl / drv_ioctl.                                          *)
(***************************************************************************)
Cmds ==
    IF variant = "media"
    THEN { "GETED", "SETFB", "SETLP", "GET_OFFSET", "CLEAR_OFFSET", "OTHER" }
    ELSE { "GETED", "SETFB", "SETLP", "OTHER" }

\* a caller enters the ioctl with a command; a run that counts its calls
\* makes at most `budget` of them, and no Encode is asked for once the
\* running output offset is beyond `cap`
IoctlCall(t, cmd, budget, cap) ==
    /\ pc[t] = "opened"
    /\ cmd \in Cmds
    /\ cmd = "GETED" => HwOffset <= cap
    /\ budget >= 0 => ncalls < budget
    /\ ncalls' = IF budget >= 0 THEN ncalls + 1 ELSE ncalls
    /\ loc' = [loc EXCEPT ![t] = [NoLoc EXCEPT !.cmd = cmd]]
    /\ Goto(t, "lock")
    /\ UNCHANGED << variant, registered_ece, drvdata, remove_ece, ece, mlock,
                    regs, hw, hw_at, ed_buffer, filp >>

\* where the switch goes once the lock is held (media) or the user structure
\* is copied (video)
Dispatch(cmd) ==
    CASE cmd = "GETED" -> IF variant = "media" THEN "ed_read_off"
                                               ELSE "enc_entry"
      [] cmd = "SETFB" -> "setfb"
      [] cmd = "SETLP" -> "setlp"
      [] cmd = "GET_OFFSET" -> "get_off"
      [] cmd = "CLEAR_OFFSET" -> "clr_off"
      [] OTHER -> "unlock"

mutex_lock_m(t) ==
    /\ pc[t] = "lock"
    /\ mlock' = t
    /\ Goto(t, IF variant = "video" \/ loc[t].cmd \in { "GETED", "SETFB", "SETLP" }
               THEN "copy_in" ELSE Dispatch(loc[t].cmd))
    /\ UNCHANGED << variant, registered_ece, drvdata, remove_ece, ece, regs,
                    hw, hw_at, ed_buffer, filp, loc, ncalls >>

\* mutex_lock(&ece->mlock): blocks until the mutex is free
mutex_lock(t) ==
    /\ pc[t] = "lock"
    /\ mlock = 0
    /\ mlock' = t
    /\ Goto(t, IF variant = "video" \/ loc[t].cmd \in { "GETED", "SETFB", "SETLP" }
               THEN "copy_in" ELSE Dispatch(loc[t].cmd))
    /\ UNCHANGED << variant, registered_ece, drvdata, remove_ece, ece, regs,
                    hw, hw_at, ed_buffer, filp, loc, ncalls >>

\* a handler that returns from a failed copy_from_user with the lock held
CopyIn_m(t, args) ==
    /\ pc[t] = "copy_in"
    /\ IF args.uptr = "bad"
       THEN /\ loc' = [loc EXCEPT ![t] = NoLoc]
            /\ Goto(t, "opened")
       ELSE /\ loc' = [loc EXCEPT ![t].data = args]
            /\ Goto(t, Dispatch(loc[t].cmd))
    /\ UNCHANGED << variant, registered_ece, drvdata, remove_ece, ece, mlock,
                    regs, hw, hw_at, ed_buffer, filp, ncalls >>

\* copy_from_user of the user structure args; on a fault the handler unlocks
\* and returns -EFAULT at once
CopyIn(t, args) ==
    /\ pc[t] = "copy_in"
    /\ IF args.uptr = "bad"
       THEN /\ loc' = [loc EXCEPT ![t].err = EFAULT]
            /\ Goto(t, "unlock")
       ELSE /\ loc' = [loc EXCEPT ![t].data = args]
            /\ Goto(t, Dispatch(loc[t].cmd))
    /\ UNCHANGED << variant, registered_ece, drvdata, remove_ece, ece, mlock,
                    regs, hw, hw_at, ed_buffer, filp, ncalls >>

\* case ECE_IOCCLEAR_OFFSET
ClearOffset(t) ==
    /\ pc[t] = "clr_off"
    /\ WriteReg("HEX_RECT_OFFSET", Zero32)
    /\ Goto(t, "unlock")
    /\ UNCHANGED << variant, registered_ece, drvdata, remove_ece, ece, mlock,
                    ed_buffer, filp, loc, ncalls >>

\* case ECE_IOCGET_OFFSET
GetOffset(t, uptr) ==
    /\ pc[t] = "get_off"
    /\ loc' = [loc EXCEPT
                 ![t].offset = regs.HEX_RECT_OFFSET,
                 ![t].err = IF uptr = "rw" THEN 0 ELSE EFAULT,
                 ![t].out = IF uptr = "rw"
                            THEN [NoOut EXCEPT !.copied = TRUE,
                                               !.offset = regs.HEX_RECT_OFFSET]
                            ELSE NoOut]
    /\ Goto(t, "unlock")
    /\ UNCHANGED << variant, registered_ece, drvdata, remove_ece, ece, mlock,
                    regs, hw, hw_at, ed_buffer, filp, ncalls >>

\* case ECE_IOCSETLP with the lin_pitch assignment ahead of the switch
ioc_setlp_m(e, r, d) ==
    LET set == lp_accepted(d.lp)
        resized == variant = "video" /\ (d.w # e.width \/ d.h # e.height)
    IN  [ ece |-> [e EXCEPT !.lin_pitch = IF set THEN d.lp ELSE @,
                            !.width = IF resized THEN d.w ELSE @,
                            !.height = IF resized THEN d.h ELSE @],
          regs |-> [r EXCEPT !.RESOL = IF set /\ lp_code(d.lp) # -1
                                       THEN U32(lp_code(d.lp)) ELSE @,
                             !.ED_BA = IF resized THEN COMP_START ELSE @] ]

\* case ECE_IOCSETLP: ece_set_lp behind its guard, and in the video driver
\* the re-latch of the output base when the dimensions changed; the driver
\* state e and the registers r after the case, for the request d
ioc_setlp(e, r, d) ==
    LET set == lp_accepted(d.lp) /\ lp_code(d.lp) # -1
        resized == variant = "video" /\ (d.w # e.width \/ d.h # e.height)
    IN  [ ece |-> [e EXCEPT !.lin_pitch = IF set THEN d.lp ELSE @,
                            !.width = IF resized THEN d.w ELSE @,
                            !.height = IF resized THEN d.h ELSE @],
          regs |-> [r EXCEPT !.RESOL = IF set THEN U32(lp_code(d.lp)) ELSE @,
                             !.ED_BA = IF resized THEN COMP_START ELSE @] ]

SetLp(t) ==
    /\ pc[t] = "setlp"
    /\ ece' = ioc_setlp(ece, regs, loc[t].data).ece
    /\ regs' = ioc_setlp(ece, regs, loc[t].data).regs
    /\ Goto(t, "unlock")
    /\ UNCHANGED << variant, registered_ece, drvdata, remove_ece, mlock,
                    hw, hw_at, ed_buffer, filp, loc, ncalls >>

\* case ECE_IOCSETFB with the register written ahead of the zero test
SetFb_m(t) ==
    /\ pc[t] = "setfb"
    /\ regs' = [regs EXCEPT !.FBR_BA = loc[t].data.framebuf]
    /\ loc' = [loc EXCEPT ![t].err = IF loc[t].data.framebuf = Zero32
                                     THEN EFAULT ELSE @]
    /\ Goto(t, "unlock")
    /\ UNCHANGED << variant, registered_ece, drvdata, remove_ece, ece, mlock,
                    hw, hw_at, ed_buffer, filp, ncalls >>

\* case ECE_IOCSETFB
SetFb(t) ==
    /\ pc[t] = "setfb"
    /\ IF loc[t].data.framebuf = Zero32
       THEN /\ loc' = [loc EXCEPT ![t].err = EFAULT]
            /\ UNCHANGED regs
       ELSE /\ regs' = [regs EXCEPT !.FBR_BA = loc[t].data.framebuf]
            /\ UNCHANGED loc
    /\ Goto(t, "unlock")
    /\ UNCHANGED << variant, registered_ece, drvdata, remove_ece, ece, mlock,
                    hw, hw_at, ed_buffer, filp, ncalls >>

\* mutex_unlock and the return of loc[t].err, at the end of the handler or
\* after a failed copy_from_user
Unlock(t) ==
    /\ pc[t] = "unlock"
    /\ mlock' = 0
    /\ loc' = [loc EXCEPT ![t] = NoLoc]
    /\ Goto(t, "opened")
    /\ UNCHANGED << variant, registered_ece, drvdata, remove_ece, ece, regs,
                    hw, hw_at, ed_buffer, filp, ncalls >>

(***************************************************************************)
(* case ECE_IOCGETED.                                                      *)
(***************************************************************************)
\* an ece_enc_rect that writes RECT_DIMEN ahead of RECT_XY
enc_rect_after_m(step) ==
    CASE step = "enc_entry" -> "fifo_clr"
      [] step = "fifo_clr" -> "fifo_set"
      [] step = "fifo_set" -> "wr_dimen"
      [] step = "wr_dimen" -> "wr_xy"
      [] step = "wr_xy" -> "wait"

\* the order of the statements of ece_enc_rect: the entry with the offset
\* computation, the two writes of fifo_reset_bypass, the RECT_XY write, the
\* RECT_DIMEN write, the return to the ioctl, which goes to get_ed_size
enc_rect_after(step) ==
    CASE step = "enc_entry" -> "fifo_clr"
      [] step = "fifo_clr" -> "fifo_set"
      [] step = "fifo_set" -> "wr_xy"
      [] step = "wr_xy" -> "wr_dimen"
      [] step = "wr_dimen" -> "wait"

\* media: offset = npcm750_ece_read_rect_offset(ece)
ReadRectOffset(t) ==
    /\ pc[t] = "ed_read_off"
    /\ loc' = [loc EXCEPT ![t].offset = regs.HEX_RECT_OFFSET]
    /\ Goto(t, "enc_entry")
    /\ UNCHANGED << variant, registered_ece, drvdata, remove_ece, ece, mlock,
                    regs, hw, hw_at, ed_buffer, filp, ncalls >>

\* npcm750_ece_enc_rect / ece_enc_rect: the offset from the line pitch, the
\* FIFO-reset bypass, the RECT_XY write, the tile layout, the RECT_DIMEN write
EncRect(t) ==
    LET d == loc[t].data
    IN
    /\ pc[t] \in { "enc_entry", "fifo_clr", "fifo_set", "wr_xy", "wr_dimen" }
    /\ CASE pc[t] = "enc_entry" ->
              /\ loc' = [loc EXCEPT
                           ![t].rect_offset = rect_offset(d.x, d.y, ece.lin_pitch),
                           ![t].lp_used = ece.lin_pitch,
                           ![t].w_size = U32(ECE_TILE_W),
                           ![t].h_size = U32(ECE_TILE_H)]
              /\ Goto(t, enc_rect_after("enc_entry"))
              /\ UNCHANGED << regs, hw, hw_at >>
         [] pc[t] = "fifo_clr" ->
              LET temp == IF variant = "media"
                          THEN update_bits(regs.DDA_CTRL, DDA_CTRL_ECEEN,
                                           U32Not(DDA_CTRL_ECEEN))
                          ELSE U32And(regs.DDA_CTRL, U32Not(DDA_CTRL_ECEEN))
              IN  /\ WriteCtrl(temp)
                  /\ loc' = [loc EXCEPT ![t].temp = temp]
                  /\ Goto(t, enc_rect_after("fifo_clr"))
         [] pc[t] = "fifo_set" ->
              LET temp == IF variant = "media"
                          THEN update_bits(regs.DDA_CTRL, DDA_CTRL_ECEEN,
                                           DDA_CTRL_ECEEN)
                          ELSE U32Or(loc[t].temp, DDA_CTRL_ECEEN)
              IN  /\ WriteCtrl(temp)
                  /\ loc' = [loc EXCEPT ![t].temp = temp]
                  /\ Goto(t, enc_rect_after("fifo_set"))
         [] pc[t] = "wr_xy" ->
              /\ WriteReg("RECT_XY", loc[t].rect_offset)
              /\ Goto(t, enc_rect_after("wr_xy"))
              /\ UNCHANGED loc
         [] pc[t] = "wr_dimen" ->
              LET w_tile == w_tile_of(d.w)
                  h_tile == h_tile_of(d.h)
                  w_size == w_size_of(d.w)
                  h_size == h_size_of(d.h)
                  temp == rect_dimen(w_size, h_size, w_tile, h_tile)
              IN  /\ WriteDimen(temp)
                  /\ loc' = [loc EXCEPT ![t].w_tile = w_tile,
                                        ![t].h_tile = h_tile,
                                        ![t].w_size = w_size,
                                        ![t].h_size = h_size,
                                        ![t].temp = temp]
                  /\ Goto(t, enc_rect_after("wr_dimen"))
    /\ UNCHANGED << variant, registered_ece, drvdata, remove_ece, ece, mlock,
                    ed_buffer, filp, ncalls >>

\* where get_ed_size reads the size word: media at the offset the ioctl read
\* from HEX_RECT_OFFSET before ece_enc_rect, video at ed_buffer[0]
ed_read_at(t) == IF variant = "media" THEN loc[t].offset ELSE Zero32

\* a loop that reads RETRY_COUNT times whatever it reads
read_again_m(size, count) == count < RETRY_COUNT

\* the condition of the do/while of the video ece_get_ed_size, after the
\* read that gave size and was the count-th
read_again(size, count) == size = Zero32 /\ count < RETRY_COUNT

\* the size word at an offset of the mapped output region
SizeWord(o) ==
    IF o[1] = 0 /\ o[2] \in DOMAIN ed_buffer THEN U32(ed_buffer[o[2]])
                                              ELSE Zero32

\* what a read of the size word at an offset can give: inside the region
\* the word that is there, beyond it whatever lies behind the mapping
SizeWords(o) ==
    IF o[1] = 0 /\ o[2] \in DOMAIN ed_buffer THEN { SizeWord(o) }
                                              ELSE { Zero32, U32(ENC_SIZE) }

\* get_ed_size without the wait for CDREADY
GetEdSize_m(t) ==
    /\ pc[t] \in { "wait", "rd_size", "clear_drs" }
    /\ CASE pc[t] = "wait" ->
              /\ Goto(t, "rd_size")
              /\ UNCHANGED << regs, hw, hw_at, loc >>
         [] pc[t] = "rd_size" ->
              /\ loc' = [loc EXCEPT ![t].ed_size = SizeWord(ed_read_at(t))]
              /\ Goto(t, "clear_drs")
              /\ UNCHANGED << regs, hw, hw_at >>
         [] pc[t] = "clear_drs" ->
              /\ ClearDrs
              /\ Goto(t, IF variant = "media" THEN "rd_gap" ELSE "clr_off_v")
              /\ UNCHANGED loc
    /\ UNCHANGED << variant, registered_ece, drvdata, remove_ece, ece, mlock,
                    ed_buffer, filp, ncalls >>

\* npcm750_ece_get_ed_size / ece_get_ed_size: spin on CDREADY, read the size
\* word (video: at offset 0, again while it reads 0, up to RETRY_COUNT
\* times), clear CDREADY
GetEdSize(t) ==
    /\ pc[t] \in { "wait", "rd_size", "clear_drs" }
    /\ CASE pc[t] = "wait" ->
              /\ Bit(regs.DDA_STS, DDA_STS_CDREADY)
              /\ Goto(t, "rd_size")
              /\ UNCHANGED << regs, hw, hw_at, loc >>
         [] pc[t] = "rd_size" ->
              IF variant = "media"
              THEN /\ \E size \in SizeWords(ed_read_at(t)) :
                         loc' = [loc EXCEPT ![t].ed_size = size]
                   /\ Goto(t, "clear_drs")
                   /\ UNCHANGED << regs, hw, hw_at >>
              ELSE LET size == SizeWord(ed_read_at(t))
                       count == loc[t].count + 1
                   IN  /\ loc' = [loc EXCEPT ![t].ed_size = size,
                                             ![t].count = count]
                       /\ Goto(t, IF read_again(size, count)
                                  THEN "rd_size" ELSE "clear_drs")
                       /\ UNCHANGED << regs, hw, hw_at >>
         [] pc[t] = "clear_drs" ->
              /\ ClearDrs
              /\ Goto(t, IF variant = "media" THEN "rd_gap" ELSE "clr_off_v")
              /\ UNCHANGED loc
    /\ UNCHANGED << variant, registered_ece, drvdata, remove_ece, ece, mlock,
                    ed_buffer, filp, ncalls >>

\* the end of the case: video clears the running offset; both read the gap
\* from HEX_CTRL, fill in gap_len and len and copy the structure out
GetEdFinish(t) ==
    /\ pc[t] \in { "clr_off_v", "rd_gap" }
    /\ CASE pc[t] = "clr_off_v" ->
              /\ WriteReg("HEX_RECT_OFFSET", Zero32)
              /\ Goto(t, "rd_gap")
              /\ UNCHANGED << ece, loc >>
         [] pc[t] = "rd_gap" ->
              LET gap == enc_gap_of(regs.HEX_CTRL)
                  copied == loc[t].data.uptr = "rw"
              IN  /\ ece' = [ece EXCEPT !.enc_gap = gap]
                  /\ loc' = [loc EXCEPT
                               ![t].data.gap_len = gap,
                               ![t].data.len = loc[t].ed_size,
                               ![t].err = IF copied THEN 0 ELSE EFAULT,
                               ![t].out = IF copied
                                          THEN [NoOut EXCEPT
                                                  !.copied = TRUE,
                                                  !.len = loc[t].ed_size,
                                                  !.gap_len = gap]
                                          ELSE NoOut]
                  /\ Goto(t, "unlock")
                  /\ UNCHANGED << regs, hw, hw_at >>
    /\ UNCHANGED << variant, registered_ece, drvdata, remove_ece, mlock,
                    ed_buffer, filp, ncalls >>

(***************************************************************************)
(* The requests callers make, and the specifications.                      *)
(***************************************************************************)
Rect(x, y, w, h) == [NoArgs EXCEPT !.x = x, !.y = y, !.w = w, !.h = h]

\* the user structures passed with a command
ArgsFor(cmd, rects, lprects, pitches, ptrs) ==
    CASE cmd = "GETED" ->
            { [r EXCEPT !.uptr = p] : r \in rects, p \in ptrs }
      [] cmd = "SETLP" ->
            { [r EXCEPT !.lp = l, !.uptr = p] :
                 r \in lprects, l \in pitches, p \in ptrs }
      [] cmd = "SETFB" ->
            { [NoArgs EXCEPT !.framebuf = f, !.uptr = p] :
                 f \in { Zero32, U32(8192), << 32768, 1 >> }, p \in ptrs }
      [] OTHER -> { [NoArgs EXCEPT !.uptr = p] : p \in ptrs }

SmallRects == { Rect(U32(10), U32(1), U32(20), U32(20)) }
SmallPitches == { 2048, 1536 }
\* user pointers: good, read-only (copy_to_user fails), bad (both fail)
SmallPtrs == { "rw", "ro", "bad" }

\* the steps of the handlers that take no input
HandlerStep(t) ==
    \/ Open(t)
    \/ OpenFailed(t)
    \/ MInitialise(t)
    \/ Release(t)
    \/ MDeinit(t)
    \/ mutex_lock(t)
    \/ ClearOffset(t)
    \/ SetLp(t)
    \/ SetFb(t)
    \/ ReadRectOffset(t)
    \/ EncRect(t)
    \/ GetEdSize(t)
    \/ GetEdFinish(t)
    \/ Unlock(t)

\* the steps of the callers in `callers`, with their inputs drawn from the
\* given sets
CallerNext(callers, rects, lprects, pitches, ptrs, budget, cap) ==
    \/ \E t \in callers : HandlerStep(t)
    \/ \E t \in callers, cmd \in Cmds : IoctlCall(t, cmd, budget, cap)
    \/ \E t \in callers :
         \E args \in ArgsFor(loc[t].cmd, rects, lprects, pitches, ptrs) :
            CopyIn(t, args)
    \/ \E t \in callers, uptr \in ptrs : GetOffset(t, uptr)

ProbeStep ==
    \/ \E fail \in ProbeFailures \cup { "none" } : Probe(fail)
    \/ MProbeFinish
    \/ VReset(PLAT)
    \/ VProbeFinish

HwStep == HwReady \/ HwSize \/ HwStall

\* concurrent callers on a probed device
Next ==
    \/ ProbeStep
    \/ HwStep
    \/ CallerNext(Callers, SmallRects, SmallRects, SmallPitches, SmallPtrs, -1,
                  MaxOffset)

Spec == Init /\ [][Next]_vars

\* one caller and the driver core, which may unbind the device under it
LifeNext ==
    \/ ProbeStep
    \/ \E oops \in BOOLEAN : Remove(oops)
    \/ HwStep
    \/ CallerNext({ 1 }, SmallRects, SmallRects, SmallPitches, SmallPtrs, -1,
                  MaxOffset)

LifeSpec == Init /\ [][LifeNext]_vars

\* one caller whose ece_enc_rect, once entered, keeps running; nothing is
\* assumed of the encoder block
SoloNext ==
    \/ ProbeStep
    \/ HwStep
    \/ CallerNext({ 1 }, SmallRects, SmallRects, SmallPitches, SmallPtrs, -1,
                  MaxOffset)

SoloSpec == Init /\ [][SoloNext]_vars /\ WF_vars(EncRect(1))

\* the steps caller t takes inside the kernel once it has made a call: a
\* thread that can run is scheduled
KernelStep(t) ==
    \/ OpenFailed(t)
    \/ MInitialise(t)
    \/ MDeinit(t)
    \/ mutex_lock(t)
    \/ \E args \in ArgsFor(loc[t].cmd, SmallRects, SmallRects,
                             { DEFAULT_LP }, { "rw" }) : CopyIn(t, args)
    \/ GetOffset(t, "rw")
    \/ ClearOffset(t)
    \/ SetLp(t)
    \/ SetFb(t)
    \/ ReadRectOffset(t)
    \/ EncRect(t)
    \/ GetEdSize(t)
    \/ GetEdFinish(t)
    \/ Unlock(t)

\* concurrent callers, whose user pointers are good, on an encoder that
\* answers: it never stalls, and a rectangle it was given is encoded in
\* finite time
ProgressNext ==
    \/ ProbeStep
    \/ HwReady
    \/ HwSize
    \/ CallerNext(Callers, SmallRects, SmallRects, { DEFAULT_LP }, { "rw" },
                  -1, MaxOffset)

ProgressSpec ==
    /\ Init
    /\ [][ProgressNext]_vars
    /\ \A t \in Callers : WF_vars(KernelStep(t))
    /\ WF_vars(HwReady)
    /\ WF_vars(HwSize)

\* one caller that goes on encoding without clearing the running output
\* offset, until the offset has left the output region
OverrunNext ==
    \/ ProbeStep
    \/ HwStep
    \/ CallerNext({ 1 }, SmallRects, SmallRects, { DEFAULT_LP }, { "rw" },
                  -1, COMP_LEN + ENC_SIZE)

OverrunSpec == Init /\ [][OverrunNext]_vars

(***************************************************************************)
(* One caller, at most MaxCalls ioctl calls, and inputs that reach the     *)
(* corners of the arithmetic: the specification of the claims about what   *)
(* a request computes.                                                     *)
(***************************************************************************)
MaxCalls == 2

\* widths and heights: none, below, at and above one tile, the largest that
\* fits the 11-bit tile count, the first that does not, the largest u32
Extents == { U32(0), U32(1), U32(15), U32(16), U32(17), U32(20), U32(32),
             U32(640), U32(32768), U32(32769), Max32 }

TileRects ==
    { Rect(Zero32, Zero32, w, U32(16)) : w \in Extents }
    \cup { Rect(Zero32, Zero32, U32(16), h) : h \in Extents }
    \cup { Rect(Zero32, Zero32, Zero32, Zero32),
           Rect(Zero32, Zero32, U32(640), U32(640)),
           Rect(U32(10), Zero32, U32(20), U32(20)),
           Rect(U32(10), U32(1), U32(20), U32(20)),
           Rect(<<32768, 0>>, U32(3), U32(16), U32(16)),
           Rect(U32(7), <<16, 1>>, U32(16), U32(16)),
           Rect(Max32, Max32, U32(16), U32(16)) }

TileLpRects == { Rect(Zero32, Zero32, U32(640), U32(640)),
                 Rect(Zero32, Zero32, U32(20), U32(20)) }

TilePitches == { 512, 1024, 2048, 2560, 4096,
                 0, 100, 1536, 3072, 3584, 5120, -512 }

TileInit == InitWith(HexCtrlResets)

TileNext ==
    \/ ProbeStep
    \/ HwStep
    \/ CallerNext({ 1 }, TileRects, TileLpRects, TilePitches, { "rw" },
                  MaxCalls, MaxOffset)

TileSpec == TileInit /\ [][TileNext]_vars

(***************************************************************************)
(* Properties.                                                             *)
(***************************************************************************)
U32Lt(a, b) == a[1] < b[1] \/ (a[1] = b[1] /\ a[2] < b[2])
U32Leq(a, b) == a = b \/ U32Lt(a, b)

\* a caller is here from the start of ece_enc_rect to the read of the gap
EncodePcs == { "enc_entry", "fifo_clr", "fifo_set", "wr_xy", "wr_dimen",
               "wait", "rd_size", "clear_drs", "clr_off_v", "rd_gap" }

\* a caller is here once ece_enc_rect has written RECT_DIMEN
ProgrammedPcs == { "wait", "rd_size", "clear_drs", "clr_off_v", "rd_gap" }

\* a caller is here once ece_enc_rect has written RECT_XY
OffsetWrittenPcs == { "wr_dimen" } \cup ProgrammedPcs

\* open() or release() of the media driver has written a register and is
\* not done
UnlockedPcs == { "m_rst_1", "m_rst_2", "m_rst_3", "m_rst_4", "m_rst_5",
                 "m_init_drs", "m_init_dba",
                 "m_deinit_1", "m_deinit_2", "m_deinit_3", "m_deinit_4" }

\* C1: at no instant is more than one caller between the start of the
\* rectangle programming and the end of its size read and gap read: the
\* encode sequences of two requests never interleave.
C1_EncodeSerialized ==
    Cardinality({ t \in Callers : pc[t] \in EncodePcs }) <= 1

\* C1 witness: one caller is in the wait of its encode while another has
\* called the ioctl and is blocked on the lock.
C1_Witness ==
    \E t, u \in Callers : t # u /\ pc[t] = "wait" /\ pc[u] = "lock"

\* C2 (as claimed): no step of open() or release() writes a register while
\* another caller holds the lock in the middle of an encode.
C2_RegistersOnlyUnderLock ==
    [][ \A t \in Callers :
          (pc[t] \in UnlockedPcs /\ pc'[t] # pc[t] /\ regs' # regs)
          => \A u \in Callers \ { t } :
                ~(mlock = u /\ pc[u] \in EncodePcs) ]_vars

\* C3 (as claimed): remove() works on the instance probe registered, and
\* once it has run no caller is inside the ioctl on that instance.
C3_DetachIsSafe ==
    /\ pc[PLAT] \in { "oops", "removed" } => remove_ece = "ece"
    /\ pc[PLAT] = "removed" =>
          \A t \in Callers : pc[t] \notin { "lock", "copy_in", "unlock" }
                                          \cup EncodePcs

\* C4 (as claimed): a request waiting on an encoder that never raises the
\* completion bit can still go on (to time out, reset and release the lock).
C4_WaitTimesOut ==
    \A t \in Callers :
       (pc[t] = "wait" /\ hw = "stalled" /\ ~Bit(regs.DDA_STS, DDA_STS_CDREADY))
       => ENABLED GetEdSize(t)

\* C5 (as claimed): for every rectangle handed to the tile computation,
\* w = 0 and h = 0 included, tile_cols >= 1, tile_rows >= 1 and both
\* remainders are in 1..16, so no (value - 1) field underflows.
C5_LayoutInRange ==
    \A t \in Callers :
       pc[t] \in ProgrammedPcs =>
          /\ U32Leq(One32, loc[t].w_tile)
          /\ U32Leq(One32, loc[t].h_tile)
          /\ U32Leq(One32, loc[t].w_size) /\ U32Leq(loc[t].w_size, U32(16))
          /\ U32Leq(One32, loc[t].h_size) /\ U32Leq(loc[t].h_size, U32(16))

\* the reference partition of an extent n >= 1 into tiles of 16
RefTiles(n) == U32Add(U32DivP2(U32Sub(n, One32), 16), One32)
RefLast(n) == U32(((n[2] + 15) % 16) + 1)

\* C6 (as claimed): when w and h are multiples of 16 both remainders are 16,
\* and for w, h >= 1 the layout is the reference partition.
C6_LayoutIsPartition ==
    \A t \in Callers :
       pc[t] \in ProgrammedPcs =>
          LET d == loc[t].data
          IN  /\ (d.w[2] % 16 = 0 /\ d.h[2] % 16 = 0)
                 => (loc[t].w_size = U32(16) /\ loc[t].h_size = U32(16))
              /\ (d.w # Zero32 /\ d.h # Zero32)
                 => /\ loc[t].w_tile = RefTiles(d.w)
                    /\ loc[t].h_tile = RefTiles(d.h)
                    /\ loc[t].w_size = RefLast(d.w)
                    /\ loc[t].h_size = RefLast(d.h)

\* C7 (as claimed): for every rectangle with w < 16, tile_cols = 1 and
\* last_col_width = w.
C7_NarrowRect ==
    \A t \in Callers :
       (pc[t] \in ProgrammedPcs /\ U32Lt(loc[t].data.w, U32(16)))
       => (loc[t].w_tile = One32 /\ loc[t].w_size = loc[t].data.w)

\* C8: for every rectangle with h < 16 the forced-increment rule applies,
\* tile_rows = 1 and last_row_height = h.
C8_ShortRect ==
    \A t \in Callers :
       (pc[t] \in ProgrammedPcs /\ U32Lt(loc[t].data.h, U32(16)))
       => /\ loc[t].h_tile = One32
          /\ loc[t].h_size = loc[t].data.h
          /\ loc[t].h_tile = U32Add(U32DivP2(loc[t].data.h, 16), One32)

\* C8 witness: a rectangle of height 15 has been programmed.
C8_Witness ==
    \E t \in Callers : pc[t] \in ProgrammedPcs /\ loc[t].data.h = U32(15)

\* C9 (as claimed): for w, h >= 1 the value written to RECT_DIMEN decodes
\* field by field to the layout: bits 0..10 tile_cols - 1, bits 11..15
\* last_col_width - 1, bits 16..26 tile_rows - 1, bits 27..31
\* last_row_height - 1.
C9_DimenDecodes ==
    \A t \in Callers :
       (pc[t] = "wait" /\ loc[t].data.w # Zero32 /\ loc[t].data.h # Zero32)
       => LET v == regs.RECT_DIMEN
          IN  /\ U32(v[2] % 2048) = U32Sub(loc[t].w_tile, One32)
              /\ U32(v[2] \div 2048) = U32Sub(loc[t].w_size, One32)
              /\ U32(v[1] % 2048) = U32Sub(loc[t].h_tile, One32)
              /\ U32(v[1] \div 2048) = U32Sub(loc[t].h_size, One32)

\* y * pitch + x * 2 modulo 2^32, for a pitch below 2^15, by long
\* multiplication on the halves
RefRectOffset(x, y, pitch) ==
    LET ylo == y[2] * pitch
        yhi == y[1] * pitch + (ylo \div Limb)
        xlo == x[2] * 2
        xhi == x[1] * 2 + (xlo \div Limb)
        lo == (ylo % Limb) + (xlo % Limb)
    IN  << (yhi + xhi + (lo \div Limb)) % Limb, lo % Limb >>

\* C10: the value written to RECT_XY is y * line_pitch + x * 2 modulo 2^32,
\* with the line pitch of the session.
C10_RectOffset ==
    \A t \in Callers :
       pc[t] \in OffsetWrittenPcs
       => regs.RECT_XY = RefRectOffset(loc[t].data.x, loc[t].data.y,
                                       ece.lin_pitch)

\* C10 witness: after a SetLinePitch(4096), the rectangle at (10, 1) has
\* been given the offset 4096 + 20.
C10_Witness ==
    \E t \in Callers :
       /\ pc[t] \in OffsetWrittenPcs
       /\ loc[t].data.x = U32(10) /\ loc[t].data.y = U32(1)
       /\ ece.lin_pitch = 4096
       /\ regs.RECT_XY = U32(4116)

\* the pitches ece_set_lp has a case for
LegalPitches == { 512, 1024, 2048, 2560, 4096 }

\* open() has returned 0 to caller t and release() has not been called
HandleOpen(t) ==
    pc[t] \notin { "closed", "enodev", "oops", "m_rst_1", "m_rst_2",
                   "m_rst_3", "m_rst_4", "m_rst_5", "m_init_drs",
                   "m_init_dba", "m_init_lp" }

C12_SetLpIdempotent ==
    [][ \A t \in Callers :
          (pc[t] = "setlp" /\ pc'[t] # "setlp")
          => /\ ioc_setlp(ece', regs', loc[t].data).ece = ece'
             /\ ioc_setlp(ece', regs', loc[t].data).regs = regs'
             /\ loc[t].data.lp \notin LegalPitches
                => /\ ece'.lin_pitch = ece.lin_pitch
                   /\ regs'.RESOL = regs.RESOL ]_vars

\* C12 witness: a SetLinePitch(4096) is running in a state an earlier
\* SetLinePitch(4096) has left: the pitch is 4096 and the resolution code 4.
C12_Witness ==
    \E t \in Callers :
       /\ pc[t] = "setlp" /\ loc[t].data.lp = 4096
       /\ ece.lin_pitch = 4096 /\ regs.RESOL = U32(4)

\* C13 (as claimed): a SetLinePitch with a pitch outside the legal set
\* returns an error.
C13_IllegalPitchReported ==
    \A t \in Callers :
       (pc[t] = "unlock" /\ loc[t].cmd = "SETLP"
          /\ loc[t].data.lp \notin LegalPitches)
       => loc[t].err # 0

\* C14: SetFramebufferAddress(0) returns an error and writes no register,
\* so FBR_BA keeps its value; a non-zero address is written to FBR_BA
\* unchanged and the call succeeds.
C14_SetFb ==
    [][ \A t \in Callers :
          (pc[t] = "setfb" /\ pc'[t] # "setfb")
          => IF loc[t].data.framebuf = Zero32
             THEN loc'[t].err # 0 /\ regs' = regs
             ELSE loc'[t].err = 0 /\ regs'.FBR_BA = loc[t].data.framebuf ]_vars

\* C14 witness: a SetFramebufferAddress(0) has returned an error and FBR_BA
\* still holds the address 0x80000001 of an earlier call.
C14_Witness ==
    \E t \in Callers :
       /\ pc[t] = "unlock" /\ loc[t].cmd = "SETFB"
       /\ loc[t].data.uptr = "rw" /\ loc[t].data.framebuf = Zero32
       /\ loc[t].err = EFAULT
       /\ regs.FBR_BA = << 32768, 1 >>

\* C15: the gap_length an encode returns is 4 when bits 8..12 of HEX_CTRL
\* are 0 and otherwise the value of those bits: it is in 1..31, never 0.
C15_GapLength ==
    \A t \in Callers :
       (pc[t] = "unlock" /\ loc[t].cmd = "GETED" /\ loc[t].out.copied)
       => LET field == (regs.HEX_CTRL[2] \div 256) % 32
              gap == loc[t].out.gap_len
          IN  /\ gap = << 0, IF field = 0 THEN 4 ELSE field >>
              /\ gap[1] = 0 /\ gap[2] \in 1..31

\* C15 witness: an encode has returned the gap 4 with the gap field of
\* HEX_CTRL at 0.
C15_Witness ==
    \E t \in Callers :
       /\ pc[t] = "unlock" /\ loc[t].cmd = "GETED" /\ loc[t].out.copied
       /\ (regs.HEX_CTRL[2] \div 256) % 32 = 0
       /\ loc[t].out.gap_len = U32(4)

\* C16 (as claimed): an Encode of a rectangle with w = 0 or h = 0 returns
\* an error, writes no register and does not start the encoder.
C16_ZeroAreaRejected ==
    [][ \A t \in Callers :
          (pc[t] \in EncodePcs /\ pc'[t] # pc[t]
             /\ (loc[t].data.w = Zero32 \/ loc[t].data.h = Zero32))
          => /\ regs' = regs /\ hw' = hw
             /\ pc'[t] = "unlock" => loc'[t].err # 0 ]_vars

\* probe has stored the instance in registered_ece and returned
Attached == pc[PLAT] \in { "bound", "oops", "removed" }

\* C17: an open() made while registered_ece is unset returns ENODEV and
\* binds nothing to the file handle; and until probe has completed no
\* caller has a handle or is inside a request.
C17_OpenBeforeAttach ==
    [][ \A t \in Callers :
          /\ (pc[t] = "closed" /\ pc'[t] # "closed"
                /\ registered_ece = "NULL")
             => (pc'[t] = "enodev" /\ filp'[t] = "NULL")
          /\ ~Attached'
             => (filp'[t] = "NULL" /\ pc'[t] \in { "closed", "enodev" }) ]_vars

\* C17 witness: an open() is returning ENODEV after remove has unset
\* registered_ece.
C17_Witness ==
    \E t \in Callers :
       /\ pc[t] = "enodev" /\ filp[t] = "NULL"
       /\ pc[PLAT] = "removed" /\ registered_ece = "NULL"

\* C18 (as claimed): when a step of attach fails, probe returns an error
\* and registered_ece stays unset.
C18_FailedAttachNotExposed ==
    [][ \A fail \in ProbeFailures :
          Probe(fail) => (pc'[PLAT] = "probe_failed"
                            /\ registered_ece' = "NULL") ]_vars

\* C19: in every encode request the size word is read only after the
\* request has seen CDREADY set, CDREADY is cleared only after the size word
\* has been read, and the request leaves the encode, to release the lock,
\* only after the clear, which it makes holding the lock.
C19_PollerOrder ==
    [][ \A t \in Callers :
          /\ (pc'[t] = "rd_size" /\ pc[t] # "rd_size")
             => (pc[t] = "wait" /\ Bit(regs.DDA_STS, DDA_STS_CDREADY))
          /\ (pc'[t] = "clear_drs" /\ pc[t] # "clear_drs")
             => (pc[t] = "rd_size"
                   /\ loc'[t].ed_size = SizeWord(ed_read_at(t)))
          /\ (pc[t] = "clear_drs" /\ pc'[t] # "clear_drs")
             => (mlock = t /\ ~Bit(regs'.DDA_STS, DDA_STS_CDREADY))
          /\ (pc'[t] \in { "clr_off_v", "rd_gap" }
                /\ pc[t] \notin { "clr_off_v", "rd_gap" })
             => pc[t] = "clear_drs"
          /\ (pc[t] \in EncodePcs /\ pc'[t] \notin EncodePcs)
             => (pc[t] = "rd_gap" /\ pc'[t] = "unlock" /\ mlock' = t) ]_vars

\* C19 witness: a request has seen CDREADY, read the size the encoder wrote
\* and cleared CDREADY, and still holds the lock.
C19_Witness ==
    \E t \in Callers :
       /\ pc[t] = "rd_gap" /\ mlock = t
       /\ loc[t].ed_size = U32(ENC_SIZE)
       /\ ~Bit(regs.DDA_STS, DDA_STS_CDREADY)

\* C20 (as claimed): when a request programs its rectangle, HEX_RECT_OFFSET
\* holds the offset at which the request will read the size word.
C20_SizeReadWhereWritten ==
    [][ \A t \in Callers :
          (pc[t] = "wr_dimen" /\ pc'[t] = "wait")
          => regs.HEX_RECT_OFFSET = ed_read_at(t) ]_vars

\* C21: in the video driver, once CDREADY has been seen, the size word is
\* read at least once and at most 30 times: each read counts one up, reading
\* goes on exactly while every read so far gave 0 and fewer than 30 were
\* made, and what is returned is the last value read, which is 0 only after
\* 30 reads.  The count rises with every read and is bounded, so the loop
\* ends.
C21_BoundedRetry ==
    [][ \A t \in Callers :
          (variant = "video" /\ pc[t] = "rd_size" /\ loc'[t] # loc[t])
          => /\ loc[t].count < RETRY_COUNT
             /\ loc[t].count > 0 => loc[t].ed_size = Zero32
             /\ loc'[t].count = loc[t].count + 1
             /\ loc'[t].ed_size = SizeWord(Zero32)
             /\ pc'[t] = IF loc'[t].ed_size = Zero32
                            /\ loc'[t].count < RETRY_COUNT
                         THEN "rd_size" ELSE "clear_drs"
             /\ pc'[t] = "clear_drs"
                => /\ loc'[t].count \in 1 .. RETRY_COUNT
                   /\ loc'[t].ed_size = Zero32
                      => loc'[t].count = RETRY_COUNT ]_vars

\* C21 witness: the video driver has read the size word 30 times, found 0
\* each time, and goes on with 0.
C21_Witness ==
    \E t \in Callers :
       /\ variant = "video" /\ pc[t] = "clear_drs"
       /\ loc[t].count = RETRY_COUNT /\ loc[t].ed_size = Zero32

\* the steps of reset(): npcm750_ece_reset in the media open(), ece_reset in
\* the video probe
ResetPcs == { "m_rst_1", "m_rst_2", "m_rst_3", "m_rst_4", "m_rst_5",
              "v_rst_clr", "v_rst_set", "v_rst_dis", "v_rst_en", "v_rst_off" }

\* v and w agree on every bit outside mask
SameBut(v, w, mask) == U32And(v, U32Not(mask)) = U32And(w, U32Not(mask))

\* C22 (as claimed): reset() has finished the cycle of the encoder-enable
\* bit when it starts the cycle of the encode-disable bit: it sets ENCDIS
\* with ECEEN back at 1.  It writes 0 to HEX_RECT_OFFSET last, leaving ECEEN
\* at 1, ENCDIS at 0 and the offset at 0, and no step of it changes another
\* bit of DDA_CTRL or of HEX_CTRL.
C22_ResetOrder ==
    [][ \A t \in Threads :
          (pc[t] \in ResetPcs /\ pc'[t] # pc[t] /\ pc'[t] # "oops"
             /\ pc'[t] # "probe_oops")
          => /\ SameBut(regs'.DDA_CTRL, regs.DDA_CTRL, DDA_CTRL_ECEEN)
             /\ SameBut(regs'.HEX_CTRL, regs.HEX_CTRL, HEX_CTRL_ENCDIS)
             /\ (Bit(regs'.HEX_CTRL, HEX_CTRL_ENCDIS)
                   /\ pc[t] \in { "m_rst_2", "v_rst_dis" })
                => Bit(regs.DDA_CTRL, DDA_CTRL_ECEEN)
             /\ pc'[t] \notin ResetPcs
                => /\ Bit(regs'.DDA_CTRL, DDA_CTRL_ECEEN)
                   /\ ~Bit(regs'.HEX_CTRL, HEX_CTRL_ENCDIS)
                   /\ regs'.HEX_RECT_OFFSET = Zero32 ]_vars

\* the registers other than r are as they were
OnlyWrote(r) == \A q \in DOMAIN regs : q # r => regs'[q] = regs[q]

\* C23: ece_enc_rect writes, in this order, DDA_CTRL with ECEEN cleared,
\* DDA_CTRL with ECEEN set, RECT_XY, RECT_DIMEN, each step writing that
\* register alone: when RECT_XY is written the enable cycle is over (ECEEN
\* is 1 and the engine flushed), when RECT_DIMEN is written RECT_XY holds
\* the offset of the request.  The RECT_DIMEN write is the last step of the
\* function, the only one to start the encoder, and the request does not
\* write RECT_DIMEN again.  The function waits for nothing: whatever the
\* encoder does or fails to do, a call that has started reaches its return.
C23_EncRectOrder ==
    /\ [][ \A t \in Callers :
          /\ (pc[t] = "fifo_clr" /\ pc'[t] # pc[t])
             => /\ OnlyWrote("DDA_CTRL")
                /\ ~Bit(regs'.DDA_CTRL, DDA_CTRL_ECEEN)
                /\ SameBut(regs'.DDA_CTRL, regs.DDA_CTRL, DDA_CTRL_ECEEN)
          /\ (pc[t] = "fifo_set" /\ pc'[t] # pc[t])
             => /\ OnlyWrote("DDA_CTRL")
                /\ ~Bit(regs.DDA_CTRL, DDA_CTRL_ECEEN)
                /\ Bit(regs'.DDA_CTRL, DDA_CTRL_ECEEN)
                /\ SameBut(regs'.DDA_CTRL, regs.DDA_CTRL, DDA_CTRL_ECEEN)
          /\ (pc[t] = "wr_xy" /\ pc'[t] # pc[t])
             => /\ OnlyWrote("RECT_XY")
                /\ regs'.RECT_XY = loc[t].rect_offset
                /\ Bit(regs.DDA_CTRL, DDA_CTRL_ECEEN)
                /\ hw = "idle" /\ hw' = "idle"
          /\ (pc[t] = "wr_dimen" /\ pc'[t] # pc[t])
             => /\ OnlyWrote("RECT_DIMEN")
                /\ regs'.RECT_DIMEN = loc'[t].temp
                /\ regs.RECT_XY = loc[t].rect_offset
                /\ pc'[t] = "wait"
          /\ pc'[t] = "wait" => pc[t] \in { "wr_dimen", "wait" }
          /\ (pc[t] \in ProgrammedPcs /\ pc'[t] # pc[t])
             => regs'.RECT_DIMEN = regs.RECT_DIMEN ]_vars
    /\ [][ (hw' = "busy" /\ hw # "busy")
           => \E t \in Callers : pc[t] = "wr_dimen" /\ pc'[t] = "wait" ]_vars
    /\ (pc[1] = "enc_entry" ~> pc[1] = "wait")

\* C23 witness: the rectangle at (10, 1) has been programmed with the pitch
\* 2048: RECT_XY holds 2068, RECT_DIMEN the layout, and the encoder runs.
C23_Witness ==
    \E t \in Callers :
       /\ pc[t] = "wait" /\ hw = "busy"
       /\ loc[t].data.x = U32(10) /\ loc[t].data.y = U32(1)
       /\ regs.RECT_XY = U32(2068)
       /\ regs.RECT_DIMEN = loc[t].temp
       /\ Bit(regs.DDA_CTRL, DDA_CTRL_ECEEN)

\* C24 (as claimed): in the video driver, when an Encode follows a request
\* with another w or h, ED_BA is written again before the rectangle is
\* programmed, so that the width and height the driver latched with its last
\* write of ED_BA are those of the rectangle.  The case checked: the Encode
\* is the second request and the first was a SetLinePitch, known by the
\* pitch it set, which left its own w and h latched.
C24_OutputBaseRelatched ==
    \A t \in Callers :
       (variant = "video" /\ pc[t] \in ProgrammedPcs
          /\ ncalls = 2 /\ ece.lin_pitch # DEFAULT_LP)
       => /\ regs.ED_BA = COMP_START
          /\ ece.width = loc[t].data.w
          /\ ece.height = loc[t].data.h

\* C25 (as claimed): with an encoder that raises CDREADY a finite time after
\* every write of RECT_DIMEN, a request that holds the lock returns and
\* releases it: a request other than Encode whatever the encoder does, and
\* an Encode once CDREADY has been raised while it waits.
C25_RequestsReturn ==
    /\ \A t \in Callers :
          (mlock = t /\ loc[t].cmd # "GETED") ~> (mlock # t)
    /\ \A t \in Callers :
          (pc[t] = "wait" /\ Bit(regs.DDA_STS, DDA_STS_CDREADY))
             ~> (mlock # t)

\* C26 (as claimed): while a rectangle is programmed and encoded, RESOL holds
\* the resolution code of the line pitch its offset was computed with.  The
\* case checked: RESOL no longer holds its reset value, a SetLinePitch has
\* written it, so that a disagreement does not rest on the reset value.
C26_ResolMatchesPitch ==
    \A t \in Callers :
       (pc[t] \in OffsetWrittenPcs /\ regs.RESOL # Zero32)
       => /\ lp_code(loc[t].lp_used) # -1
          /\ regs.RESOL = U32(lp_code(loc[t].lp_used))

\* C27 (as claimed): in the media driver, when a caller with an open handle
\* programs a rectangle while no open() or release() of another handle is
\* under way, the encoder is enabled: ECEEN is 1 and ENCDIS is 0, whatever
\* handles were opened and closed before.
C27_EncoderUsableWhileOpen ==
    [][ \A t \in Callers :
          (variant = "media" /\ pc[t] = "wr_dimen" /\ pc'[t] = "wait"
             /\ \A u \in Callers \ { t } : pc[u] \in { "closed", "opened" })
          => /\ Bit(regs.DDA_CTRL, DDA_CTRL_ECEEN)
             /\ ~Bit(regs.HEX_CTRL, HEX_CTRL_ENCDIS)
             /\ hw' = "busy" ]_vars

\* a caller is here between its mutex_lock and its mutex_unlock
LockedPcs == { "copy_in", "setfb", "setlp", "get_off", "clr_off",
               "ed_read_off", "unlock" } \cup EncodePcs

\* C28: a caller holds the lock exactly while it is between the mutex_lock
\* and the mutex_unlock of its request, so that on every path the request
\* returns with the lock released; the lock is released only by a step of
\* its holder, the one that returns from the request, and taken only when
\* free.
C28_LockReleasedOnReturn ==
    [][ \A t \in Callers :
          /\ (mlock' = t) <=> (pc'[t] \in LockedPcs)
          /\ (mlock = t /\ mlock' # t)
             => (pc[t] = "unlock" /\ pc'[t] = "opened" /\ mlock' = 0)
          /\ (pc[t] \in LockedPcs /\ pc'[t] \notin LockedPcs)
             => (mlock = t /\ mlock' = 0 /\ pc'[t] = "opened")
          /\ (mlock # t /\ mlock' = t) => (mlock = 0 /\ pc[t] = "lock") ]_vars

\* C28 witness: an Encode whose copy_to_user failed is about to release the
\* lock it holds and return EFAULT, while another caller waits for the lock.
C28_Witness ==
    \E t, u \in Callers :
       /\ t # u /\ pc[u] = "lock"
       /\ pc[t] = "unlock" /\ mlock = t
       /\ loc[t].cmd = "GETED" /\ loc[t].data.uptr = "ro"
       /\ loc[t].err = EFAULT

\* C29 (as claimed): in the media driver the four bytes of the size word a
\* request reads, at the offset it took from HEX_RECT_OFFSET, lie inside
\* the output region: offset + 4 <= comp_len.
C29_SizeReadInWindow ==
    \A t \in Callers :
       (variant = "media" /\ pc[t] = "rd_size")
       => (loc[t].offset[1] = 0 /\ loc[t].offset[2] + 4 <= COMP_LEN)

====
